---------------------------- MODULE Spec2Model ----------------------------
(***************************************************************************)
(* A model of the mascot-gen relay (src/server.js and its later revision   *)
(* src/unnamed/part_001): the admission gate processWithConcurrencyLimit,  *)
(* the processedEvents deduplicator of the /slack/image webhook, the       *)
(* retryWithBackoff executor and the deferred job of the /tmai command.    *)
(*                                                                         *)
(* Jobs are anonymous: the state holds a bag of job records, one record    *)
(* per setTimeout callback that has been scheduled and has not returned.   *)
(* A job record carries the callback's position (pc), the closure values   *)
(* the callback reads (threadTs) and counters of what it has done so far.  *)
(***************************************************************************)
EXTENDS Naturals, Integers, Sequences, FiniteSets, Bags, TLC

VARIABLES
    activeRequests,   \* server.js:74  let activeRequests = 0
    processedEvents,  \* server.js:79  new Set(), kept in insertion order
    jobs,             \* bag of the deferred callbacks in flight
    resp,             \* the HTTP response of the last request handled
    ack,              \* the last message a request handler posted to Slack
    streak,           \* admission attempts since the counter was last 0 with
                      \* no release since; -1 once a release has intervened
    variant,          \* which revision of the server runs
    issued,           \* number of distinct event keys delivered so far
    delivery,         \* what the last /slack/image request was and did
    fresh             \* every app_mention so far carried a key never seen

vars == <<activeRequests, processedEvents, jobs, resp, ack, streak, variant,
          issued, delivery, fresh>>

--------------------------------------------------------------------------
(* Program constants *)

MAX_CONCURRENT == 20

DedupLimit == 100

DefaultMaxRetries == 5

\* retryWithBackoff(generateOperation, 5, 1000): baseDelay, in ms
BaseDelay == 1000

\* Math.random() * 1000: the jitter is below this many ms
JitterRange == 1000

(* Bounds of the model *)

\* timers pending at once (jobs scheduled whose callback has not started)
MaxSched == 1

\* jobs past their first suspension point and not yet returned; the other
\* admitted jobs are still waiting for their first file read
MaxBusy == 1

\* rejected attempts counted by streak beyond MAX_CONCURRENT
MaxOver == 2

\* largest maxRetries a direct call of retryWithBackoff is given
MaxM == 6

\* distinct event keys delivered to the webhook (Dedup specification)
MaxEvents == 101

\* distinct event keys delivered to the webhook (Mention specification)
MaxMentionEvents == 3

Variants == {"server.js", "part_001"}

--------------------------------------------------------------------------
(* Errors: what the code reads of an error is its message and its status. *)

TooManyMessage == "Too many requests at once. Please try again in a moment."

TimeoutMessage == "Request timeout after 120 seconds"

\* the errors the provider call (generateOperation) can end with
ProviderErrors == {"Overloaded", "Status503", "BadRequest", "NoImage"}

ErrorMessage(e) ==
    CASE e = "TooMany"      -> TooManyMessage
      [] e = "Timeout"      -> TimeoutMessage
      [] e = "Overloaded"   -> "The model is overloaded. Please try again later."
      [] e = "Status503"    -> "Service temporarily down"
      [] e = "BadRequest"   -> "400 Bad Request: invalid argument"
      [] e = "NoImage"      -> "No image data found in response"
      [] e = "LoadFailed"   -> "ENOENT: no such file or directory"
      [] e = "SaveFailed"   -> "ENOSPC: no space left on device"
      [] e = "UploadFailed" -> "An API error occurred: channel_not_found"
      [] e = "undefined"    -> "undefined"
      [] OTHER              -> ""

ErrorStatus(e) ==
    CASE e = "Status503"  -> 503
      [] e = "BadRequest" -> 400
      [] OTHER            -> 0

\* error.message?.includes(pattern), tabulated for the messages above
MessageIncludes(e, pattern) ==
    CASE pattern = "overloaded"      -> e = "Overloaded"
      [] pattern = "503"             -> FALSE
      [] pattern = "UNAVAILABLE"     -> FALSE
      [] pattern = "Request timeout" -> e = "Timeout"
      [] OTHER                       -> FALSE

IsRetryableNoTimeout(e) ==
    \/ MessageIncludes(e, "overloaded")
    \/ MessageIncludes(e, "503")
    \/ MessageIncludes(e, "UNAVAILABLE")
    \/ ErrorStatus(e) = 503

IsRetryable(e) ==
    \/ MessageIncludes(e, "overloaded")
    \/ MessageIncludes(e, "503")
    \/ MessageIncludes(e, "UNAVAILABLE")
    \/ MessageIncludes(e, "Request timeout")
    \/ ErrorStatus(e) = 503

--------------------------------------------------------------------------
(* The admission gate, processWithConcurrencyLimit *)

GateEnterOffByOne(n) ==
    IF n > MAX_CONCURRENT
    THEN [admitted |-> FALSE, count |-> n]
    ELSE [admitted |-> TRUE, count |-> n + 1]

GateEnterCountsFirst(n) ==
    IF n >= MAX_CONCURRENT
    THEN [admitted |-> FALSE, count |-> n + 1]
    ELSE [admitted |-> TRUE, count |-> n + 1]

\* the comparison and the increment run with no await between them
GateEnter(n) ==
    IF n >= MAX_CONCURRENT
    THEN [admitted |-> FALSE, count |-> n]
    ELSE [admitted |-> TRUE, count |-> n + 1]

GateExitOnResolveOnly(n, outcome) ==
    IF outcome = "resolved" THEN n - 1 ELSE n

\* finally { activeRequests-- }: outcome is "resolved" or "thrown"
GateExit(n, outcome) == n - 1

--------------------------------------------------------------------------
(* Job records *)

NoThread == "none"

\* the ts Slack returns for the acknowledgment a handler posts
AckTs == "ack.ts"

\* the ts of the user's message that mentions the bot
EventTs == "event.ts"

NoPost == [prefix |-> "", message |-> "", thread_ts |-> NoThread]

\* let ratio = "16:9"
DefaultRatio == "16:9"

NewJobStarted(kind, threadTs, maxRetries) ==
    [kind       |-> kind,
     pc         |-> "load",
     threadTs   |-> threadTs,
     maxRetries |-> maxRetries,
     ratio      |-> DefaultRatio,
     attempt    |-> 0,
     delay      |-> 0,
     sleeps     |-> 0,
     timeouts   |-> 0,
     abandoned  |-> 0,
     timers     |-> 0,
     opCalls    |-> 0,
     retryCalls |-> 0,
     fnCalls    |-> 1,
     admitted   |-> TRUE,
     rejected   |-> FALSE,
     released   |-> 0,
     err        |-> "none",
     errPost    |-> NoPost,
     errSent    |-> FALSE,
     upload     |-> NoThread,
     uploaded   |-> FALSE,
     escaped    |-> FALSE,
     result     |-> 0]

\* the closure of the callback handed to setTimeout, nothing done yet
NewJob(kind, threadTs, maxRetries) ==
    [kind       |-> kind,
     pc         |-> "sched",
     threadTs   |-> threadTs,
     maxRetries |-> maxRetries,
     ratio      |-> DefaultRatio,
     attempt    |-> 0,
     delay      |-> 0,
     sleeps     |-> 0,
     timeouts   |-> 0,
     abandoned  |-> 0,
     timers     |-> 0,
     opCalls    |-> 0,
     retryCalls |-> 0,
     fnCalls    |-> 0,
     admitted   |-> FALSE,
     rejected   |-> FALSE,
     released   |-> 0,
     err        |-> "none",
     errPost    |-> NoPost,
     errSent    |-> FALSE,
     upload     |-> NoThread,
     uploaded   |-> FALSE,
     escaped    |-> FALSE,
     result     |-> 0]

JobSet == BagToSet(jobs)

Replace(j, k) == (jobs (-) SetToBag({j})) (+) SetToBag({k})

\* how many jobs, copies counted, are among those of S
Count(S) == BagCardinality([j \in S |-> jobs[j]])

IsSched(j) == j.pc = "sched"

IsBusy(j) == j.pc \notin {"sched", "load"}

IsRejected(j) == j.rejected

NumSched == Count({j \in JobSet : IsSched(j)})

NumBusy == Count({j \in JobSet : IsBusy(j)})

NumRejected == Count({j \in JobSet : IsRejected(j)})

HoldsSlot(j) == j.admitted /\ j.released = 0

NumHolding == Count({j \in JobSet : HoldsSlot(j)})


--------------------------------------------------------------------------
(* The deferred callback of a job: setTimeout(async () => {...}, 100) *)

ErrorPrefixPlain(kind) == ""

\* "[X] " stands for the cross-mark emoji that starts every error text
ErrorPrefix(kind) ==
    IF kind = "mention"
    THEN "[X] Sorry, I encountered an error generating your image: "
    ELSE "[X] "

ErrorPostNoThread(kind, e, threadTs) ==
    [prefix |-> ErrorPrefix(kind), message |-> ErrorMessage(e),
     thread_ts |-> NoThread]

\* the chat.postMessage call of the callback's catch block
ErrorPost(kind, e, threadTs) ==
    [prefix |-> ErrorPrefix(kind), message |-> ErrorMessage(e),
     thread_ts |-> threadTs]

AfterRelease(old, new) ==
    IF new = old THEN streak ELSE IF new = 0 THEN 0 ELSE -1

ThrownRequeues(j, k, e) ==
    LET n == GateExit(activeRequests, "thrown") IN
    /\ activeRequests' = n
    /\ streak' = AfterRelease(activeRequests, n)
    /\ jobs' = Replace(j, [k EXCEPT !.released = @ + (activeRequests - n),
                                    !.err = e,
                                    !.pc = "sched"])

ThrownSwallowed(j, k, e) ==
    LET n == GateExit(activeRequests, "thrown") IN
    /\ activeRequests' = n
    /\ streak' = AfterRelease(activeRequests, n)
    /\ jobs' = Replace(j, [k EXCEPT !.released = @ + (activeRequests - n),
                                    !.err = e,
                                    !.pc = "done"])

\* requestFn of job j, whose record has become k, rejects with e: the
\* gate's finally runs, the error reaches the callback's catch block, which
\* posts it and awaits the post
Thrown(j, k, e) ==
    LET n == GateExit(activeRequests, "thrown") IN
    /\ activeRequests' = n
    /\ streak' = AfterRelease(activeRequests, n)
    /\ jobs' = Replace(j, [k EXCEPT !.released = @ + (activeRequests - n),
                                    !.err = e,
                                    !.errPost = ErrorPost(j.kind, e, j.threadTs),
                                    !.pc = "postErr"])

StartRetryOutsideGate(j) ==
    [j EXCEPT !.admitted = FALSE, !.retryCalls = @ + 1, !.attempt = 1,
              !.opCalls = @ + 1, !.pc = "gen"]

\* retryWithBackoff is entered: the loop header, then operation() is called
\* and raced against the attempt's timeout
StartRetry(j) ==
    IF 1 <= j.maxRetries
    THEN [j EXCEPT !.retryCalls = @ + 1, !.attempt = 1, !.opCalls = @ + 1,
                   !.pc = "gen"]
    ELSE [j EXCEPT !.retryCalls = @ + 1, !.attempt = 1, !.err = "undefined",
                   !.pc = "raised"]

\* the timer of a scheduled job fires: processWithConcurrencyLimit(requestFn),
\* while fewer than busy jobs are past their first await
TimerFiresWithin(j, busy) ==
    /\ j.pc = "sched"
    /\ streak < MAX_CONCURRENT + MaxOver
    /\ LET g == GateEnter(activeRequests) IN
       /\ activeRequests' = g.count
       /\ streak' = IF streak >= 0 THEN streak + 1 ELSE streak
       /\ IF g.admitted
          THEN IF j.kind \in {"tmai", "ian"}
               THEN jobs' = Replace(j, [j EXCEPT !.admitted = TRUE,
                                                 !.fnCalls = @ + 1,
                                                 !.pc = "load"])
               ELSE /\ NumBusy < busy
                    /\ jobs' = Replace(j, StartRetry([j EXCEPT
                                                 !.admitted = TRUE,
                                                 !.fnCalls = @ + 1]))
          ELSE /\ NumBusy < busy
               /\ jobs' = Replace(j, [j EXCEPT
                      !.rejected = TRUE,
                      !.err = "TooMany",
                      !.errPost = ErrorPost(j.kind, "TooMany", j.threadTs),
                      !.pc = "postErr"])
    /\ UNCHANGED <<processedEvents, resp, ack, variant, issued, delivery, fresh>>

TimerFires(j) == TimerFiresWithin(j, MaxBusy)

\* loadTemplateImages settles, while fewer than busy jobs are past it
LoadSettlesWithin(j, ok, busy) ==
    /\ j.pc = "load"
    /\ NumBusy < busy
    /\ IF ok
       THEN /\ jobs' = Replace(j, StartRetry(j))
            /\ UNCHANGED <<activeRequests, streak>>
       ELSE Thrown(j, j, "LoadFailed")
    /\ UNCHANGED <<processedEvents, resp, ack, variant, issued, delivery, fresh>>

LoadSettles(j, ok) == LoadSettlesWithin(j, ok, MaxBusy)

RetryDecisionOneShort(outcome, attempt, maxRetries) ==
    IF outcome = "ok" THEN "return"
    ELSE IF ~IsRetryable(outcome) \/ attempt + 1 >= maxRetries THEN "throw"
    ELSE "sleep"

RetryDecisionRetriesAll(outcome, attempt, maxRetries) ==
    IF outcome = "ok" THEN "return"
    ELSE IF attempt = maxRetries THEN "throw"
    ELSE "sleep"

\* Math.random() * 1000 lies in [0, JitterRange): the two ends stand for it
Jitters == {0, JitterRange - 1}

DelayLinear(attempt, jitter) == BaseDelay * attempt + jitter

\* baseDelay * Math.pow(2, attempt - 1) + Math.random() * 1000
Delay(attempt, jitter) == BaseDelay * 2 ^ (attempt - 1) + jitter

\* what retryWithBackoff does with the outcome of one attempt
RetryDecision(outcome, attempt, maxRetries) ==
    IF outcome = "ok" THEN "return"
    ELSE IF ~IsRetryable(outcome) \/ attempt = maxRetries THEN "throw"
    ELSE "sleep"

\* the race of one attempt settles: the operation resolves ("ok"), rejects
\* with a provider error, or the attempt's timer rejects first ("Timeout")
AttemptSettles(j, outcome) ==
    /\ j.pc = "gen"
    /\ LET d == RetryDecision(outcome, j.attempt, j.maxRetries)
           \* the job with this attempt's timeout counted: the operation
           \* that lost the race is not cancelled and stays in flight
           \* when the operation settles first, the attempt's timer is not
           \* cleared and stays pending
           k == IF outcome = "Timeout"
                THEN [j EXCEPT !.timeouts = @ + 1, !.abandoned = @ + 1]
                ELSE [j EXCEPT !.timers = @ + 1]
       IN
       CASE d = "return" ->
              /\ jobs' = Replace(j, [k EXCEPT
                     !.result = j.attempt,
                     !.pc = IF j.kind = "call" THEN "returned" ELSE "save"])
              /\ UNCHANGED <<activeRequests, streak>>
         [] d = "sleep" ->
              /\ \E jitter \in Jitters :
                     jobs' = Replace(j, [k EXCEPT
                                !.err = outcome,
                                !.delay = Delay(j.attempt, jitter),
                                !.sleeps = @ + 1,
                                !.pc = "sleep"])
              /\ UNCHANGED <<activeRequests, streak>>
         [] d = "throw" ->
              IF j.kind = "call"
              THEN /\ jobs' = Replace(j, [k EXCEPT !.err = outcome,
                                                   !.pc = "raised"])
                   /\ UNCHANGED <<activeRequests, streak>>
              ELSE Thrown(j, k, outcome)
    /\ UNCHANGED <<processedEvents, resp, ack, variant, issued, delivery, fresh>>

TimeoutNeverFires(j) == FALSE /\ AttemptSettles(j, "Timeout")

\* the timer of the attempt's timeoutPromise fires before the operation
\* settles: the race rejects with the timeout error
TimeoutFires(j) == AttemptSettles(j, "Timeout")

AbandonedCallEndsAttempt(j) ==
    /\ j.abandoned > 0
    /\ jobs' = Replace(j, IF j.pc = "gen"
                          THEN [j EXCEPT !.abandoned = @ - 1,
                                         !.result = j.attempt - 1,
                                         !.pc = "returned"]
                          ELSE [j EXCEPT !.abandoned = @ - 1])
    /\ UNCHANGED <<activeRequests, streak, processedEvents, resp, ack,
                   variant, issued, delivery, fresh>>

\* the timer of an attempt whose operation settled first fires: it rejects
\* the timeoutPromise of that attempt, whose race is over
StaleTimerFires(j) ==
    /\ j.timers > 0
    /\ jobs' = Replace(j, [j EXCEPT !.timers = @ - 1])
    /\ UNCHANGED <<activeRequests, streak, processedEvents, resp, ack,
                   variant, issued, delivery, fresh>>

\* a provider call that lost the race against its timeout settles at last;
\* nothing awaits it any more
AbandonedCallSettles(j) ==
    /\ j.abandoned > 0
    /\ jobs' = Replace(j, [j EXCEPT !.abandoned = @ - 1])
    /\ UNCHANGED <<activeRequests, streak, processedEvents, resp, ack,
                   variant, issued, delivery, fresh>>

NextAttemptSameIndex(j) ==
    [j EXCEPT !.opCalls = @ + 1, !.err = "none", !.delay = 0, !.pc = "gen"]

\* attempt++ and, the loop going on, operation() is called again
NextAttempt(j) ==
    [j EXCEPT !.attempt = @ + 1, !.opCalls = @ + 1, !.err = "none",
              !.delay = 0, !.pc = "gen"]

\* the timer of the backoff sleep fires after delay ms: attempt++, the loop
\* header, the next attempt
SleepEnds(j) ==
    /\ j.pc = "sleep"
    /\ IF j.attempt + 1 <= j.maxRetries
       THEN /\ jobs' = Replace(j, NextAttempt(j))
            /\ UNCHANGED <<activeRequests, streak>>
       ELSE IF j.kind = "call"
            THEN /\ jobs' = Replace(j, [j EXCEPT !.attempt = @ + 1,
                                                 !.pc = "raised"])
                 /\ UNCHANGED <<activeRequests, streak>>
            ELSE Thrown(j, [j EXCEPT !.attempt = @ + 1], j.err)
    /\ UNCHANGED <<processedEvents, resp, ack, variant, issued, delivery, fresh>>

\* saveGeneratedImage settles; on success files.uploadV2 is called
SaveSettles(j, ok) ==
    /\ j.pc = "save"
    /\ IF ok
       THEN /\ jobs' = Replace(j, [j EXCEPT !.upload = j.threadTs,
                                            !.pc = "upload"])
            /\ UNCHANGED <<activeRequests, streak>>
       ELSE Thrown(j, j, "SaveFailed")
    /\ UNCHANGED <<processedEvents, resp, ack, variant, issued, delivery, fresh>>

\* files.uploadV2 settles; on success requestFn resolves, the gate's finally
\* runs and the callback returns
UploadSettles(j, ok) ==
    /\ j.pc = "upload"
    /\ IF ok
       THEN LET n == GateExit(activeRequests, "resolved") IN
            /\ activeRequests' = n
            /\ streak' = AfterRelease(activeRequests, n)
            /\ jobs' = Replace(j, [j EXCEPT
                   !.released = @ + (activeRequests - n),
                   !.uploaded = TRUE,
                   !.pc = "done"])
       ELSE Thrown(j, j, "UploadFailed")
    /\ UNCHANGED <<processedEvents, resp, ack, variant, issued, delivery, fresh>>

\* the chat.postMessage of the catch block settles; when it rejects, the
\* callback's promise rejects with nothing to handle it
PostErrSettles(j, ok) ==
    /\ j.pc = "postErr"
    /\ jobs' = Replace(j, [j EXCEPT !.errSent = ok, !.escaped = ~ok,
                                    !.pc = "done"])
    /\ UNCHANGED <<activeRequests, streak, processedEvents, resp, ack,
                   variant, issued, delivery, fresh>>

\* the callback (or the direct call) is over and its closure is dropped
CallbackReturns(j) ==
    /\ j.pc \in {"done", "returned", "raised"}
    /\ jobs' = jobs (-) SetToBag({j})
    /\ UNCHANGED <<activeRequests, streak, processedEvents, resp, ack,
                   variant, issued, delivery, fresh>>

--------------------------------------------------------------------------
(* The /tmai-gen route and handleTMAISlashCommand *)

\* TARGET_CHANNEL: { type: 'string', default: 'C08BW4X3VMX' }
TARGET_CHANNEL == "C08BW4X3VMX"

\* the channels a request can come from
Channels == {TARGET_CHANNEL, "C1"}

NoAck == [text |-> "", user |-> "", thread_ts |-> NoThread, channel |-> ""]

NoDelivery == [type |-> "none", key |-> <<>>, outcome |-> "none",
               posts |-> 0, scheduled |-> 0, seq |-> 0]

\* A command text is a sequence of tokens separated by blanks.
Tokens == {"robot", "--ratio", "1:1", "2:3"}

SupportedRatios == {"1:1", "3:4", "4:3", "9:16", "16:9"}

\* the tokens that /--\w+/ matches
IsFlag(t) == t = "--ratio"

\* the first match of /--ratio\s+([^\s]+)/: the token after the first
\* "--ratio" that has one, "" when there is no match
RatioMatch(text) ==
    LET I == {i \in 1..(Len(text) - 1) : text[i] = "--ratio"} IN
    IF I = {} THEN ""
    ELSE text[(CHOOSE i \in I : \A k \in I : i <= k) + 1]

RECURSIVE StripFlagsKeepsValue(_)
StripFlagsKeepsValue(text) ==
    IF text = <<>> THEN <<>>
    ELSE IF IsFlag(Head(text)) THEN StripFlagsKeepsValue(Tail(text))
    ELSE <<Head(text)>> \o StripFlagsKeepsValue(Tail(text))

RECURSIVE StripFlags(_)
\* commandText.replace(/--\w+\s*([^\s]*)?/g, '').trim(): every flag goes,
\* together with the token that follows it
StripFlags(text) ==
    IF text = <<>> THEN <<>>
    ELSE IF IsFlag(Head(text))
    THEN StripFlags(IF Len(text) >= 2 THEN Tail(Tail(text)) ELSE <<>>)
    ELSE <<Head(text)>> \o StripFlags(Tail(text))

parsePromptWithFlagsUnchecked(text) ==
    [prompt |-> StripFlags(text),
     ratio  |-> IF RatioMatch(text) # "" THEN RatioMatch(text)
                ELSE DefaultRatio]

\* parsePromptWithFlags and parseIanPromptWithFlags (the same code)
parsePromptWithFlags(text) ==
    [prompt |-> StripFlags(text),
     ratio  |-> IF RatioMatch(text) \in SupportedRatios
                THEN RatioMatch(text) ELSE DefaultRatio]

RouteCommandsShared(route) == {"/tmai", "/test-tmai", "/ian", "/test-ian"}

\* the commands a route takes, and the kind of job it starts
RouteCommands(route) ==
    IF route = "/tmai-gen" THEN {"/tmai", "/test-tmai"}
                           ELSE {"/ian", "/test-ian"}

RouteKind(route) == IF route = "/tmai-gen" THEN "tmai" ELSE "ian"

\* the text the handler returns for a prompt that is empty
ValidationText(kind) ==
    IF kind = "tmai" THEN "[X] Please provide a description for the mascot"
    ELSE "[X] Please provide a description for the Ian Balina image"

UserNameNoFallback(lookupOk) == IF lookupOk THEN "real_name" ELSE "undefined"

\* let userName = 'there'; try { userName = (await users.info(...)).user
\* ?.real_name || ... || 'there' } catch (error) { }
UserName(lookupOk) == IF lookupOk THEN "real_name" ELSE "there"

HandlerErrorReplyRethrown ==
    [code |-> 500, body |-> "[X] An error occurred while processing your command"]

\* the handler's own catch returns a text, which the route sends with 200
HandlerErrorReply ==
    [code |-> 200, body |-> "[X] An unexpected error occurred"]

\* POST /tmai-gen or /ian-gen with channel_id in its body: the route, then
\* handleTMAISlashCommand or handleIanSlashCommand up to its return.
\* lookupOk, ackOk: whether users.info and the acknowledgment post succeed
SlashCommandIn(channel_id, route, command, text, lookupOk, ackOk) ==
    LET kind == RouteKind(route)
        p    == parsePromptWithFlags(text)
    IN
    /\ NumSched < MaxSched
    /\ IF command \notin RouteCommands(route)
       THEN /\ resp' = [code |-> 400, body |-> "Unknown command"]
            /\ UNCHANGED <<jobs, ack>>
       ELSE IF p.prompt = <<>>
       THEN /\ resp' = [code |-> 200, body |-> ValidationText(kind)]
            /\ UNCHANGED <<jobs, ack>>
       ELSE IF ~ackOk
       THEN /\ resp' = HandlerErrorReply
            /\ UNCHANGED <<jobs, ack>>
       ELSE /\ ack' = [text |-> "working",
                       user |-> UserName(lookupOk),
                       thread_ts |-> NoThread,
                       channel |-> channel_id]
            /\ jobs' = jobs (+) SetToBag({[NewJob(kind, AckTs,
                                                  DefaultMaxRetries)
                                             EXCEPT !.ratio = p.ratio]})
            /\ resp' = [code |-> 200, body |-> ""]
    /\ UNCHANGED <<activeRequests, streak, processedEvents, variant, issued,
                   delivery, fresh>>

\* a slash command sent from the configured channel
SlashCommand(route, command, text, lookupOk, ackOk) ==
    SlashCommandIn(TARGET_CHANNEL, route, command, text, lookupOk, ackOk)

\* a /tmai-gen request told by whether its prompt is empty
SlashTMAI(command, promptEmpty, lookupOk, ackOk) ==
    SlashCommand("/tmai-gen", command,
                 IF promptEmpty THEN <<>> ELSE <<"robot">>, lookupOk, ackOk)

--------------------------------------------------------------------------
(* The specification of the server under /tmai commands *)

NoResp == [code |-> 0, body |-> ""]

Init ==
    /\ activeRequests = 0
    /\ processedEvents = <<>>
    /\ jobs = EmptyBag
    /\ resp = NoResp
    /\ ack = NoAck
    /\ streak = 0
    /\ variant = "server.js"
    /\ issued = 0
    /\ delivery = NoDelivery
    /\ fresh = TRUE

\* every way one attempt of the provider call can end
Outcomes == {"ok", "Timeout"} \cup ProviderErrors

\* Under Spec every /tmai command is well formed and acknowledged, and an
\* attempt ends in success, in a timeout or in a fatal provider error.
Next ==
    \/ SlashTMAI("/tmai", FALSE, TRUE, TRUE)
    \/ \E j \in JobSet : TimerFires(j)
    \/ \E j \in JobSet, ok \in BOOLEAN : LoadSettles(j, ok)
    \/ \E j \in JobSet, o \in {"ok", "Timeout", "BadRequest"} :
           AttemptSettles(j, o)
    \/ \E j \in JobSet : SleepEnds(j)
    \/ \E j \in JobSet, ok \in BOOLEAN : SaveSettles(j, ok)
    \/ \E j \in JobSet, ok \in BOOLEAN : UploadSettles(j, ok)
    \/ \E j \in JobSet, ok \in BOOLEAN : PostErrSettles(j, ok)
    \/ \E j \in JobSet : CallbackReturns(j)

Spec == Init /\ [][Next]_vars

--------------------------------------------------------------------------
(* Direct calls of retryWithBackoff(operation, maxRetries) *)

RetryCall(maxRetries) ==
    /\ NumBusy < MaxBusy
    /\ jobs' = jobs (+) SetToBag({StartRetry(NewJob("call", NoThread,
                                                    maxRetries))})
    /\ UNCHANGED <<activeRequests, streak, processedEvents, resp, ack,
                   variant, issued, delivery, fresh>>

NextRetry ==
    \/ \E m \in 0..MaxM : RetryCall(m)
    \/ \E j \in JobSet, o \in Outcomes : AttemptSettles(j, o)
    \/ \E j \in JobSet : SleepEnds(j)
    \/ \E j \in JobSet : CallbackReturns(j)

SpecRetry == Init /\ [][NextRetry]_vars

\* One call at a time, whose operation settles or does not; the timers
\* (the timeout of an attempt, the backoff sleep) fire in the end.
NextRetryTimers ==
    \/ /\ jobs = EmptyBag
       /\ \E m \in 0..MaxM : RetryCall(m)
    \/ \E j \in JobSet, o \in {"ok"} \cup ProviderErrors : AttemptSettles(j, o)
    \/ \E j \in JobSet : TimeoutFires(j)
    \/ \E j \in JobSet : SleepEnds(j)
    \/ \E j \in JobSet : CallbackReturns(j)

SpecRetryTimers ==
    /\ Init
    /\ [][NextRetryTimers]_vars
    /\ WF_vars(\E j \in JobSet : TimeoutFires(j))
    /\ WF_vars(\E j \in JobSet : SleepEnds(j))

\* One call at a time; the operations that lost their race settle late, at
\* any time, and so do the timers that lost theirs
NextRace ==
    \/ /\ jobs = EmptyBag
       /\ \E m \in 0..MaxM : RetryCall(m)
    \/ \E j \in JobSet, o \in {"ok"} \cup ProviderErrors : AttemptSettles(j, o)
    \/ \E j \in JobSet : TimeoutFires(j)
    \/ \E j \in JobSet : SleepEnds(j)
    \/ \E j \in JobSet : AbandonedCallSettles(j)
    \/ \E j \in JobSet : StaleTimerFires(j)
    \/ \E j \in JobSet : CallbackReturns(j)

SpecRace == Init /\ [][NextRace]_vars

--------------------------------------------------------------------------
(* The /slack/image webhook and its deduplicator *)

\* `${event.channel}_${event.user}_${event.event_ts}`
DedupId(channel, user, event_ts) == <<channel, user, event_ts>>

HasNever(set, k) == FALSE

\* processedEvents.has(k)
Has(set, k) == \E i \in 1..Len(set) : set[i] = k

\* processedEvents.add(k), for a k the set does not hold
Add(set, k) == Append(set, k)

EvictNever(set) == set

\* if (size > 100) delete(values().next().value): drop the oldest key
Evict(set) == IF Len(set) > DedupLimit THEN Tail(set) ELSE set

OnDuplicateRefreshes(set, k) ==
    LET Other(x) == x # k IN SelectSeq(set, Other) \o <<k>>

\* if (processedEvents.has(dedupId)) return { ok: true }: the lookup of a
\* key the set holds leaves the set, and the order of its keys, as it was
OnDuplicate(set, k) == set

OnFailureForgets(set, k) ==
    LET Other(x) == x # k IN SelectSeq(set, Other)

\* catch (error) { ...; return reply.code(500).send(...) }: the handler's
\* catch block logs and answers; it does not touch processedEvents
OnFailure(set, k) == set

Max(a, b) == IF a > b THEN a ELSE b

\* the event_ts values a request can carry: the next new one, or one
\* delivered before (the first ever, the latest, the oldest still recorded)
KeyChoices(maxEvents) ==
    (IF issued < maxEvents THEN {issued + 1} ELSE {})
    \cup ({1, issued} \cap 1..issued)
    \cup (IF processedEvents # <<>> THEN {Head(processedEvents)[3]} ELSE {})

Delivered(type, key, outcome, posts, scheduled) ==
    [type |-> type, key |-> key, outcome |-> outcome, posts |-> posts,
     scheduled |-> scheduled, seq |-> 1 - delivery.seq]

Ok200 == [code |-> 200, body |-> "ok"]

Error500 == [code |-> 500, body |-> "Webhook processing failed"]

NotAMentionRecorded(btype, etype) ==
    /\ resp' = Ok200
    /\ delivery' = Delivered(IF btype = "event_callback" THEN etype ELSE btype,
                             <<>>, "ignored", 0, 0)
    /\ processedEvents' = Evict(Add(processedEvents, DedupId("C1", "U1", 0)))
    /\ UNCHANGED <<activeRequests, streak, jobs, ack, variant, issued, fresh>>

\* requests that are not an app_mention: both revisions treat them alike
NotAMention(btype, etype) ==
    /\ IF btype = "url_verification"
       THEN /\ resp' = [code |-> 200, body |-> "challenge"]
            /\ delivery' = Delivered(btype, <<>>, "challenge", 0, 0)
       ELSE /\ resp' = Ok200
            /\ delivery' = Delivered(IF btype = "event_callback"
                                     THEN etype ELSE btype,
                                     <<>>, "ignored", 0, 0)
    /\ UNCHANGED <<activeRequests, streak, processedEvents, jobs, ack,
                   variant, issued, fresh>>

IsMention(btype, etype) ==
    btype = "event_callback" /\ etype = "app_mention"

\* server.js: eventId is declared const at line 856 and assigned at line
\* 871, so every app_mention throws a TypeError there and is answered 500
SlackImageServerJs(btype, etype, ts) ==
    /\ variant = "server.js"
    /\ IF IsMention(btype, etype)
       THEN /\ resp' = Error500
            /\ delivery' = Delivered("app_mention", DedupId("C1", "U1", ts),
                                     "error", 0, 0)
            /\ issued' = Max(issued, ts)
            /\ fresh' = (fresh /\ ts > issued)
            /\ UNCHANGED <<activeRequests, streak, processedEvents, jobs,
                           ack, variant>>
       ELSE NotAMention(btype, etype)

\* the tokens that start with /\d+:\d+/
IsNumericRatio(t) == t \in {"1:1", "2:3"}

\* the first match of /--ratio\s+(\d+:\d+)/ in the prompt of a mention,
\* "" when there is no match
MentionRatioMatch(text) ==
    LET I == {i \in 1..(Len(text) - 1) :
                 text[i] = "--ratio" /\ IsNumericRatio(text[i + 1])} IN
    IF I = {} THEN ""
    ELSE text[(CHOOSE i \in I : \A k \in I : i <= k) + 1]

\* what the webhook makes of a mention's prompt (the text without the
\* bot's mention): no prompt, a ratio it does not support, or work to do
MentionShape(text) ==
    IF text = <<>> THEN "empty_prompt"
    ELSE IF MentionRatioMatch(text) # ""
            /\ MentionRatioMatch(text) \notin SupportedRatios
    THEN "bad_ratio"
    ELSE "valid"

MentionRatio(text) ==
    IF MentionRatioMatch(text) \in SupportedRatios
    THEN MentionRatioMatch(text) ELSE DefaultRatio

\* part_001: shape says what the event's text holds, ratio the aspect ratio
\* taken from it; postOk whether the one chat.postMessage the handler makes
\* (if any) succeeds
SlackImagePart001(btype, etype, ts, shape, ratio, postOk, lookupOk) ==
    /\ variant = "part_001"
    /\ IF ~IsMention(btype, etype)
       THEN NotAMention(btype, etype)
       ELSE LET key == DedupId("C1", "U1", ts)
                D(outcome, posts, scheduled) ==
                    Delivered("app_mention", key, outcome, posts, scheduled)
            IN
            /\ issued' = Max(issued, ts)
            /\ fresh' = (fresh /\ ts > issued)
            /\ UNCHANGED <<activeRequests, streak, variant>>
            /\ IF Has(processedEvents, key)
               THEN /\ resp' = Ok200
                    /\ delivery' = D("duplicate", 0, 0)
                    /\ processedEvents' = OnDuplicate(processedEvents, key)
                    /\ UNCHANGED <<jobs, ack>>
               ELSE
               /\ CASE shape = "no_text" ->
                         \* text.includes(...) on an undefined text throws
                         /\ resp' = Error500
                         /\ delivery' = D("error", 0, 0)
                         /\ UNCHANGED <<jobs, ack>>
                    [] shape = "blank_text" ->
                         /\ resp' = Ok200
                         /\ delivery' = D("skipped", 0, 0)
                         /\ UNCHANGED <<jobs, ack>>
                    [] shape \in {"empty_prompt", "bad_ratio"} ->
                         IF postOk
                         THEN /\ resp' = Ok200
                              /\ delivery' = D("invalid", 1, 0)
                              /\ ack' = [text |-> shape, user |-> "",
                                         thread_ts |-> EventTs,
                                         channel |-> "C1"]
                              /\ UNCHANGED jobs
                         ELSE /\ resp' = Error500
                              /\ delivery' = D("error", 0, 0)
                              /\ UNCHANGED <<jobs, ack>>
                    [] shape = "valid" ->
                         /\ NumSched < MaxSched
                         /\ IF postOk
                            THEN /\ resp' = Ok200
                                 /\ delivery' = D("scheduled", 1, 1)
                                 /\ ack' = [text |-> "working",
                                            user |-> UserName(lookupOk),
                                            thread_ts |-> EventTs,
                                            channel |-> "C1"]
                                 /\ jobs' = jobs (+) SetToBag({[NewJob(
                                        "mention", AckTs, DefaultMaxRetries)
                                        EXCEPT !.ratio = ratio]})
                            ELSE /\ resp' = Error500
                                 /\ delivery' = D("error", 0, 0)
                                 /\ UNCHANGED <<jobs, ack>>
               \* the key was added before any of this, and the catch block
               \* that answers 500 leaves it where it is
               /\ processedEvents' =
                      IF resp'.code = 500
                      THEN OnFailure(Evict(Add(processedEvents, key)), key)
                      ELSE Evict(Add(processedEvents, key))

InitWebhook ==
    /\ activeRequests = 0
    /\ processedEvents = <<>>
    /\ jobs = EmptyBag
    /\ resp = NoResp
    /\ ack = NoAck
    /\ streak = 0
    /\ variant \in Variants
    /\ issued = 0
    /\ delivery = NoDelivery
    /\ fresh = TRUE

\* the requests the webhook tells apart: body type and event type
Requests == {<<"url_verification", "">>, <<"event_callback", "message">>,
             <<"event_callback", "app_mention">>, <<"other", "">>}

\* Under SpecDedup no mention asks for work: the deduplicator runs alone
NextDedup ==
    \/ \E r \in Requests, ts \in KeyChoices(MaxEvents) :
           SlackImageServerJs(r[1], r[2], ts)
    \/ \E r \in Requests, ts \in KeyChoices(MaxEvents),
          shape \in {"no_text", "blank_text", "empty_prompt", "bad_ratio"},
          postOk \in BOOLEAN :
           SlackImagePart001(r[1], r[2], ts, shape, DefaultRatio, postOk, TRUE)

SpecDedup == InitWebhook /\ [][NextDedup]_vars

\* Under SpecMention mentions ask for work, over a few event keys; an
\* attempt of the provider call ends in success or in a fatal error
NextMention ==
    \/ \E r \in Requests, ts \in KeyChoices(MaxMentionEvents) :
           SlackImageServerJs(r[1], r[2], ts)
    \/ \E r \in Requests, ts \in KeyChoices(MaxMentionEvents),
          shape \in {"blank_text", "empty_prompt", "valid"},
          postOk \in BOOLEAN :
           SlackImagePart001(r[1], r[2], ts, shape, DefaultRatio, postOk, TRUE)
    \/ \E j \in JobSet : TimerFires(j)
    \/ \E j \in JobSet, o \in {"ok", "BadRequest"} : AttemptSettles(j, o)
    \/ \E j \in JobSet, ok \in BOOLEAN : SaveSettles(j, ok)
    \/ \E j \in JobSet, ok \in BOOLEAN : UploadSettles(j, ok)
    \/ \E j \in JobSet, ok \in BOOLEAN : PostErrSettles(j, ok)
    \/ \E j \in JobSet : CallbackReturns(j)

SpecMention == InitWebhook /\ [][NextMention]_vars

--------------------------------------------------------------------------
(* Every trigger with its text: slash commands and mentions *)

\* tokens of a command text or of a mention's prompt
MaxTextLen == 3

\* jobs in flight at once under SpecJobs
MaxInFlight == 1

\* jobs in flight at once under SpecProvider
MaxCalling == 5

Texts == UNION {[1..k -> Tokens] : k \in 0..MaxTextLen}

Routes == {"/tmai-gen", "/ian-gen"}

\* an app_mention whose text is the bot's mention followed by prompt
MentionText(ts, prompt, postOk) ==
    \/ SlackImageServerJs("event_callback", "app_mention", ts)
    \/ SlackImagePart001("event_callback", "app_mention", ts,
                         MentionShape(prompt), MentionRatio(prompt),
                         postOk, TRUE)

\* Under SpecText the texts vary; the triggers come one at a time, each
\* after the job of the one before is over, and every step of a job succeeds
NextText ==
    \/ /\ jobs = EmptyBag
       /\ \E route \in Routes, text \in Texts :
              SlashCommand(route, CHOOSE c \in RouteCommands(route) : TRUE,
                           text, TRUE, TRUE)
    \/ /\ jobs = EmptyBag
       /\ \E route \in Routes, command \in {"/tmai", "/ian"},
             lookupOk, ackOk \in BOOLEAN :
              SlashCommand(route, command, <<"robot">>, lookupOk, ackOk)
    \/ /\ jobs = EmptyBag
       /\ \E ts \in KeyChoices(MaxMentionEvents), prompt \in Texts,
             postOk \in BOOLEAN :
              MentionText(ts, prompt, postOk)
    \/ \E j \in JobSet : TimerFires(j)
    \/ \E j \in JobSet : LoadSettles(j, TRUE)
    \/ \E j \in JobSet : AttemptSettles(j, "ok")
    \/ \E j \in JobSet : SaveSettles(j, TRUE)
    \/ \E j \in JobSet : UploadSettles(j, TRUE)
    \/ \E j \in JobSet : CallbackReturns(j)

SpecText == InitWebhook /\ [][NextText]_vars

\* Under SpecJobs the three kinds of job run, few at a time, and every
\* step of a job can fail; every trigger is well formed and acknowledged,
\* or is a command without a prompt, and an attempt of the provider call
\* ends in success or in a fatal error
NextJobs ==
    \/ \E route \in Routes, text \in {<<>>, <<"--ratio", "1:1">>} :
           SlashCommand(route, CHOOSE c \in RouteCommands(route) : TRUE,
                        text, TRUE, TRUE)
    \/ /\ BagCardinality(jobs) < MaxInFlight
       /\ \E route \in Routes :
              SlashCommand(route, CHOOSE c \in RouteCommands(route) : TRUE,
                           <<"robot">>, TRUE, TRUE)
    \/ /\ BagCardinality(jobs) < MaxInFlight
       /\ \E ts \in KeyChoices(MaxMentionEvents) :
              MentionText(ts, <<"robot">>, TRUE)
    \/ \E j \in JobSet : TimerFires(j)
    \/ \E j \in JobSet, ok \in BOOLEAN : LoadSettles(j, ok)
    \/ \E j \in JobSet, o \in {"ok", "BadRequest"} : AttemptSettles(j, o)
    \/ \E j \in JobSet, ok \in BOOLEAN : SaveSettles(j, ok)
    \/ \E j \in JobSet, ok \in BOOLEAN : UploadSettles(j, ok)
    \/ \E j \in JobSet, ok \in BOOLEAN : PostErrSettles(j, ok)
    \/ \E j \in JobSet : CallbackReturns(j)

SpecJobs == InitWebhook /\ [][NextJobs]_vars

\* Under SpecProvider a few /tmai jobs run at once; the provider is slow:
\* an attempt is ended by its timeout, and the call it abandoned settles
\* late, after the retries of its job are over, or never
NextProvider ==
    \/ /\ BagCardinality(jobs) < MaxCalling
       /\ SlashTMAI("/tmai", FALSE, TRUE, TRUE)
    \/ \E j \in JobSet : TimerFires(j)
    \/ \E j \in JobSet : LoadSettlesWithin(j, TRUE, MaxCalling)
    \/ \E j \in JobSet : TimeoutFires(j)
    \/ \E j \in JobSet : j.pc \in {"postErr", "done"} /\ AbandonedCallSettles(j)
    \/ \E j \in JobSet : SleepEnds(j)
    \/ \E j \in JobSet : PostErrSettles(j, TRUE)
    \/ \E j \in JobSet : CallbackReturns(j)

SpecProvider == Init /\ [][NextProvider]_vars

\* the commands Slack is configured to send
Commands == {"/tmai", "/test-tmai", "/ian", "/test-ian"}

\* the texts that tell the handlers' cases apart
HandlerTexts == {<<>>, <<"robot">>, <<"robot", "--ratio", "1:1">>,
                 <<"robot", "--ratio", "2:3">>}

\* Under SpecHandlers a request can be any slash command from any channel
\* or an app_mention (one event, delivered again and again); the user
\* lookup and the handler's post can fail, and so can every step of the
\* job; the requests come one at a time, each after the job of the one
\* before is over
NextHandlers ==
    \/ /\ jobs = EmptyBag
       /\ \E channel_id \in Channels, route \in Routes, command \in Commands,
             text \in HandlerTexts, lookupOk \in BOOLEAN, ackOk \in BOOLEAN :
              SlashCommandIn(channel_id, route, command, text, lookupOk, ackOk)
    \/ /\ jobs = EmptyBag
       /\ \E ts \in KeyChoices(1) :
              SlackImageServerJs("event_callback", "app_mention", ts)
    \/ /\ jobs = EmptyBag
       /\ \E ts \in KeyChoices(1), prompt \in HandlerTexts,
             postOk \in BOOLEAN, lookupOk \in BOOLEAN :
              SlackImagePart001("event_callback", "app_mention", ts,
                                MentionShape(prompt), MentionRatio(prompt),
                                postOk, lookupOk)
    \/ \E j \in JobSet : TimerFires(j)
    \/ \E j \in JobSet, ok \in BOOLEAN : LoadSettles(j, ok)
    \/ \E j \in JobSet, o \in {"ok", "BadRequest"} : AttemptSettles(j, o)
    \/ \E j \in JobSet, ok \in BOOLEAN : SaveSettles(j, ok)
    \/ \E j \in JobSet, ok \in BOOLEAN : UploadSettles(j, ok)
    \/ \E j \in JobSet, ok \in BOOLEAN : PostErrSettles(j, ok)
    \/ \E j \in JobSet : CallbackReturns(j)

SpecHandlers == InitWebhook /\ [][NextHandlers]_vars

\* Under SpecSlots one job runs at a time, of any of the three kinds; its
\* provider call succeeds, fails or does not answer. The calls of the job
\* other than the provider call (loading, saving, uploading) settle in the
\* end, one way or the other, and the timers (the timeout of an attempt,
\* the backoff sleep) fire in the end; nothing is assumed of the provider.
NextSlots ==
    \/ /\ jobs = EmptyBag
       /\ \E route \in Routes :
              SlashCommand(route, CHOOSE c \in RouteCommands(route) : TRUE,
                           <<"robot">>, TRUE, TRUE)
    \/ /\ jobs = EmptyBag
       /\ \E ts \in KeyChoices(MaxMentionEvents) :
              SlackImagePart001("event_callback", "app_mention", ts,
                                "valid", DefaultRatio, TRUE, TRUE)
    \/ \E j \in JobSet : TimerFires(j)
    \/ \E j \in JobSet, ok \in BOOLEAN : LoadSettles(j, ok)
    \/ \E j \in JobSet, o \in {"ok"} \cup ProviderErrors : AttemptSettles(j, o)
    \/ \E j \in JobSet : TimeoutFires(j)
    \/ \E j \in JobSet : SleepEnds(j)
    \/ \E j \in JobSet, ok \in BOOLEAN : SaveSettles(j, ok)
    \/ \E j \in JobSet, ok \in BOOLEAN : UploadSettles(j, ok)
    \/ \E j \in JobSet, ok \in BOOLEAN : PostErrSettles(j, ok)
    \/ \E j \in JobSet : CallbackReturns(j)

SpecSlots ==
    /\ InitWebhook
    /\ [][NextSlots]_vars
    /\ WF_vars(\E j \in JobSet, ok \in BOOLEAN : LoadSettles(j, ok))
    /\ WF_vars(\E j \in JobSet : TimeoutFires(j))
    /\ WF_vars(\E j \in JobSet : SleepEnds(j))
    /\ WF_vars(\E j \in JobSet, ok \in BOOLEAN : SaveSettles(j, ok))
    /\ WF_vars(\E j \in JobSet, ok \in BOOLEAN : UploadSettles(j, ok))

\* Under SpecCeiling /tmai jobs fill the gate while one of them is past
\* its loading: its attempts succeed or are ended by their timeout, and a
\* job that finds the gate full is turned away meanwhile
NextCeiling ==
    \/ SlashTMAI("/tmai", FALSE, TRUE, TRUE)
    \/ \E j \in JobSet : TimerFiresWithin(j, MaxBusy + 1)
    \/ \E j \in JobSet : LoadSettles(j, TRUE)
    \/ \E j \in JobSet : AttemptSettles(j, "ok")
    \/ \E j \in JobSet : TimeoutFires(j)
    \/ \E j \in JobSet : SleepEnds(j)
    \/ \E j \in JobSet : SaveSettles(j, TRUE)
    \/ \E j \in JobSet, ok \in BOOLEAN : UploadSettles(j, ok)
    \/ \E j \in JobSet : PostErrSettles(j, TRUE)
    \/ \E j \in JobSet : CallbackReturns(j)

SpecCeiling == Init /\ [][NextCeiling]_vars

--------------------------------------------------------------------------
(* Claims about the admission gate, checked under Spec *)

Min(a, b) == IF a < b THEN a ELSE b

\* C1: in every reachable state, whatever jobs succeed, throw or are
\* rejected, 0 <= activeRequests <= MAX_CONCURRENT.
C1_CounterInRange ==
    /\ activeRequests >= 0
    /\ activeRequests <= MAX_CONCURRENT

\* the counter is at the ceiling and a job has just been turned away
C1_Witness ==
    /\ activeRequests = MAX_CONCURRENT
    /\ NumRejected = 1

\* C2: after N admission attempts from count 0 with no release in between,
\* exactly min(N, MAX_CONCURRENT) have been admitted; as this holds after
\* every attempt, the first min(N, ceiling) are the admitted ones and every
\* later attempt is rejected.
C2_AdmissionBound ==
    streak >= 0 => activeRequests = Min(streak, MAX_CONCURRENT)

\* the 21st attempt in a row has been made and was not admitted
C2_Witness ==
    /\ streak = MAX_CONCURRENT + 1
    /\ activeRequests = MAX_CONCURRENT

\* C3: an admitted job decrements the counter exactly once, whether
\* requestFn resolves or throws: never twice, never before requestFn has
\* finished, and by the time it has finished.
C3_ReleasedExactlyOnce ==
    \A j \in JobSet :
        /\ j.released <= 1
        /\ j.released = 1 <=> (j.admitted /\ j.pc \in {"postErr", "done"})

\* an admitted job whose requestFn threw has given its slot back
C3_Witness ==
    \E j \in JobSet :
        /\ j.admitted
        /\ j.err = "UploadFailed"
        /\ j.pc = "postErr"
        /\ j.released = 1

\* C4: an attempt rejected because activeRequests >= MAX_CONCURRENT leaves
\* activeRequests as it was and never invokes requestFn.
C4_RejectionHasNoEffect ==
    [][(NumSched' < NumSched /\ activeRequests >= MAX_CONCURRENT) =>
          /\ activeRequests' = activeRequests
          /\ NumRejected' = NumRejected + 1
          /\ \A j \in BagToSet(jobs') :
                 j.rejected => (j.fnCalls = 0 /\ ~j.admitted /\ j.released = 0)
      ]_vars

\* a rejected job is waiting for its error post with the counter untouched
C4_Witness ==
    \E j \in JobSet :
        /\ j.rejected
        /\ j.pc = "postErr"
        /\ j.fnCalls = 0
        /\ activeRequests = MAX_CONCURRENT
        /\ NumHolding = MAX_CONCURRENT

\* C5: a job started while MAX_CONCURRENT jobs hold slots is rejected; it
\* posts the "Too many requests" text in the thread of its acknowledgment
\* (the user receives it whenever Slack accepts the post) and makes no
\* provider call and no retryWithBackoff call.
C5_TooManyRequestsReply ==
    /\ [](\A j \in JobSet :
            j.rejected =>
              /\ j.opCalls = 0
              /\ j.retryCalls = 0
              /\ ~j.uploaded
              /\ j.threadTs = AckTs
              /\ j.errPost = [prefix |-> "[X] ", message |-> TooManyMessage,
                              thread_ts |-> AckTs]
              /\ (j.pc = "done" => (j.errSent \/ j.escaped)))
    /\ [][(NumSched' < NumSched /\ NumHolding = MAX_CONCURRENT) =>
              NumRejected' = NumRejected + 1]_vars

\* the rejected job's message has been delivered
C5_Witness ==
    \E j \in JobSet :
        /\ j.rejected
        /\ j.pc = "done"
        /\ j.errSent
        /\ j.opCalls = 0
        /\ NumHolding = MAX_CONCURRENT

--------------------------------------------------------------------------
(* Claims about the deduplicator, checked under SpecDedup and SpecMention *)

MentionHandled == delivery'.seq # delivery.seq /\ delivery'.type = "app_mention"

KeyRecorded(set, k) == \E i \in 1..Len(set) : set[i] = k

\* C6: deduplication is idempotent: a mention whose key is not in the set
\* is treated as not-duplicate and leaves its key in the set, so that the
\* next delivery of the key is treated as a duplicate; a mention whose key
\* is in the set is treated as a duplicate and leaves the set unchanged.
C6_DedupIdempotent ==
    [][MentionHandled =>
          LET k == delivery'.key IN
          IF KeyRecorded(processedEvents, k)
          THEN /\ delivery'.outcome = "duplicate"
               /\ processedEvents' = processedEvents
          ELSE /\ delivery'.outcome # "duplicate"
               /\ KeyRecorded(processedEvents', k)
      ]_vars

NoRepeats(set) ==
    \A i, k \in 1..Len(set) : set[i] = set[k] => i = k

\* C7: processedEvents never holds more than DedupLimit (100) keys.
C7_DedupBounded ==
    /\ Len(processedEvents) <= DedupLimit
    /\ NoRepeats(processedEvents)

\* the set is full and has already evicted a key
C7_Witness ==
    /\ Len(processedEvents) = DedupLimit
    /\ issued = DedupLimit + 1
    /\ ~KeyRecorded(processedEvents, DedupId("C1", "U1", 1))

\* C8: from the empty set, DedupLimit + 1 mentions with pairwise distinct
\* keys leave exactly the DedupLimit keys delivered last: the first key is
\* the one evicted.
C8_OldestEvicted ==
    (fresh /\ issued = DedupLimit + 1) =>
        processedEvents = [i \in 1..DedupLimit |-> DedupId("C1", "U1", i + 1)]

\* C9: a mention whose key is in the set when it arrives schedules no job,
\* posts no Slack message and causes no provider call.
C9_DuplicateDoesNothing ==
    [][(MentionHandled /\ KeyRecorded(processedEvents, delivery'.key)) =>
          /\ jobs' = jobs
          /\ ack' = ack
          /\ activeRequests' = activeRequests
          /\ delivery'.posts = 0
          /\ delivery'.scheduled = 0
      ]_vars

IsMentionJob(j) == j.kind = "mention"

\* the only key ever delivered came a second time while its job was in flight
C9_Witness ==
    /\ delivery.outcome = "duplicate"
    /\ issued = 1
    /\ Count({j \in JobSet : IsMentionJob(j)}) = 1

--------------------------------------------------------------------------
(* Claims about retryWithBackoff, checked under SpecRetry *)

\* C10: with maxRetries = M >= 1 and a retryable failure on every attempt,
\* the operation is invoked exactly M times and the call then raises that
\* error: the call is still retrying (sleeping) after fewer than M failed
\* attempts, and has invoked the operation M times when it raises.
C10_RetryableExhaustsBudget ==
    \A j \in JobSet :
        (j.kind = "call" /\ j.maxRetries >= 1) =>
            /\ (j.pc = "sleep" =>
                   /\ IsRetryable(j.err)
                   /\ j.opCalls = j.attempt
                   /\ j.opCalls < j.maxRetries)
            /\ ((j.pc = "raised" /\ IsRetryable(j.err)) =>
                   /\ j.opCalls = j.maxRetries
                   /\ j.attempt = j.maxRetries
                   /\ j.result = 0)

\* three timeouts in a row used up a budget of three
C10_Witness ==
    \E j \in JobSet :
        /\ j.kind = "call"
        /\ j.maxRetries = 3
        /\ j.pc = "raised"
        /\ j.err = "Timeout"
        /\ j.opCalls = 3

IsCall(j) == j.kind = "call"

\* the errors of ProviderErrors that match none of the retryable patterns
FatalErrors == {"BadRequest", "NoImage"}

\* C11: whatever the attempts do (succeed, fail with a retryable or a fatal
\* error, or never settle, so that the attempt's timeout wins the race), one
\* call of retryWithBackoff invokes the operation at most maxRetries times.
C11_AtMostMaxRetriesCalls ==
    \A j \in JobSet :
        /\ j.opCalls <= j.maxRetries
        /\ j.opCalls <= j.attempt
        /\ j.retryCalls <= 1

\* a call used its whole budget: timeouts up to the last attempt, which
\* succeeded
C11_Witness ==
    \E j \in JobSet :
        /\ IsCall(j)
        /\ j.maxRetries = MaxM
        /\ j.opCalls = MaxM
        /\ j.pc = "returned"

\* C12: a fatal error is never retried: the call raises it at the attempt
\* that failed, without sleeping and without invoking the operation again;
\* a fatal error on attempt 1 of 5 means exactly one invocation.
C12_FatalNeverRetried ==
    \A j \in JobSet :
        (IsCall(j) /\ j.err \in FatalErrors) =>
            /\ j.pc = "raised"
            /\ j.opCalls = j.attempt
            /\ (j.attempt = 1 => j.opCalls = 1)

\* a fatal error on attempt 1 of a budget of 5
C12_Witness ==
    \E j \in JobSet :
        /\ IsCall(j)
        /\ j.maxRetries = DefaultMaxRetries
        /\ j.err = "BadRequest"
        /\ j.pc = "raised"
        /\ j.opCalls = 1

\* C13: a call that returns after retryable failures on attempts 1..k-1 and
\* success on attempt k has invoked the operation exactly k times, k is at
\* most maxRetries, and what it returns is the result of attempt k.
C13_ReturnsFirstSuccess ==
    \A j \in JobSet :
        (IsCall(j) /\ j.pc = "returned") =>
            /\ j.opCalls = j.attempt
            /\ j.result = j.attempt
            /\ j.attempt >= 1
            /\ j.attempt <= j.maxRetries
            /\ j.err = "none"

\* success on attempt 2 of 5
C13_Witness ==
    \E j \in JobSet :
        /\ IsCall(j)
        /\ j.maxRetries = DefaultMaxRetries
        /\ j.pc = "returned"
        /\ j.result = 2
        /\ j.opCalls = 2

--------------------------------------------------------------------------
(* Claims about the job of a /tmai command, checked under Spec, where an   *)
(* attempt ends in success, in a timeout or in a fatal error               *)

IsTmai(j) == j.kind = "tmai"

\* C14: when the provider call times out on attempts 1 to 4 and succeeds on
\* attempt 5 of 5, every timeout is taken as retryable (the job sleeps and
\* tries again) and the job is delivered: the image is uploaded to the
\* acknowledgment thread and no error message is posted for the provider
\* call; only a failing save or upload can still end the job in an error.
C14_TimeoutsThenSuccessDelivered ==
    \A j \in JobSet :
        IsTmai(j) =>
            /\ (j.err = "Timeout" /\ j.attempt < j.maxRetries) => j.pc = "sleep"
            /\ (j.result = DefaultMaxRetries) =>
                  /\ j.opCalls = DefaultMaxRetries
                  /\ j.pc \in {"save", "upload", "done", "postErr"}
                  /\ (j.errPost # NoPost) =>
                         j.err \in {"SaveFailed", "UploadFailed"}
                  /\ (j.pc = "done" /\ j.err = "none") =>
                         /\ j.uploaded
                         /\ j.upload = AckTs
                         /\ j.errPost = NoPost
                         /\ ~j.errSent

\* four timeouts, success on attempt 5, image uploaded to the thread
C14_Witness ==
    \E j \in JobSet :
        /\ IsTmai(j)
        /\ j.result = DefaultMaxRetries
        /\ j.opCalls = DefaultMaxRetries
        /\ j.pc = "done"
        /\ j.uploaded
        /\ j.upload = AckTs
        /\ j.errPost = NoPost

--------------------------------------------------------------------------
(* Claims about the triggers and the jobs of every kind, checked under     *)
(* SpecJobs and SpecText                                                   *)

\* command texts without a prompt: nothing, or nothing but a flag
PromptlessTexts ==
    {<<>>, <<"--ratio">>} \cup {<<"--ratio", v>> : v \in Tokens}

\* C15: a slash command whose prompt is empty, or empty once the flags are
\* stripped, is answered at once with the validation text; no
\* acknowledgment is posted, nothing is scheduled, no admission is
\* attempted and activeRequests is unchanged.
C15_EmptyPromptRejected ==
    [][\A route \in Routes, text \in PromptlessTexts :
          SlashCommand(route, CHOOSE c \in RouteCommands(route) : TRUE,
                       text, TRUE, TRUE)
          => /\ resp' = [code |-> 200,
                         body |-> ValidationText(RouteKind(route))]
             /\ jobs' = jobs
             /\ ack' = ack
             /\ activeRequests' = activeRequests
             /\ streak' = streak
      ]_vars

\* the validation text was the answer while another job held a slot
C15_Witness ==
    /\ resp = [code |-> 200, body |-> ValidationText("ian")]
    /\ activeRequests = 1
    /\ NumSched = 0

\* C16: within one job the steps come in order: the job exists only once
\* its acknowledgment is posted (its closure holds the acknowledgment's ts);
\* until its timer fires it has attempted nothing; the provider is called
\* only by a job that was admitted; the upload follows a provider result and
\* the error post follows an error.
C16_StepsInOrder ==
    /\ (jobs # EmptyBag) => ack.text = "working"
    /\ \A j \in JobSet :
          /\ j.threadTs = AckTs
          /\ (j.pc = "sched") =>
                 /\ ~j.admitted /\ ~j.rejected
                 /\ j.fnCalls = 0 /\ j.retryCalls = 0 /\ j.opCalls = 0
                 /\ j.upload = NoThread /\ j.errPost = NoPost
          /\ (j.opCalls > 0 \/ j.retryCalls > 0) =>
                 (j.admitted /\ j.fnCalls = 1)
          /\ j.rejected => (j.fnCalls = 0 /\ j.opCalls = 0)
          /\ (j.upload # NoThread) => (j.result > 0 /\ j.opCalls > 0)
          /\ j.uploaded => j.upload # NoThread
          /\ (j.errPost # NoPost) =>
                 (j.err # "none" /\ j.pc \in {"postErr", "done"})

\* a mention went through every step up to the upload
C16_Witness ==
    \E j \in JobSet :
        /\ j.kind = "mention"
        /\ j.admitted
        /\ j.opCalls = 1
        /\ j.result = 1
        /\ j.uploaded
        /\ j.pc = "done"

\* C17: no exception leaves the deferred callback: every failure is caught,
\* and a failure to post the error message is swallowed too.
C17_NothingEscapes ==
    \A j \in JobSet : ~j.escaped

ErrorPrefixes ==
    {"[X] ", "[X] Sorry, I encountered an error generating your image: "}

\* C18: every failure of a job is answered by an error message addressed to
\* the thread of the job's acknowledgment (thread_ts = the acknowledgment's
\* ts) and starting with the error prefix; the failure path is over once
\* that post has settled.
C18_FailureAnsweredInThread ==
    \A j \in JobSet :
        (j.err # "none") =>
            /\ j.pc \in {"postErr", "done"}
            /\ j.errPost.thread_ts = AckTs
            /\ j.errPost.thread_ts = j.threadTs
            /\ j.errPost.prefix \in ErrorPrefixes
            /\ j.errPost.message = ErrorMessage(j.err)
            /\ j.errPost.message # ""
            /\ ~j.uploaded
            /\ (j.pc = "done") => (j.errSent \/ j.escaped)

\* the error of a failed upload was posted in a mention's thread
C18_Witness ==
    \E j \in JobSet :
        /\ j.kind = "mention"
        /\ j.err = "UploadFailed"
        /\ j.pc = "done"
        /\ j.errSent
        /\ j.errPost.thread_ts = AckTs

\* texts with a prompt and a ratio outside the supported set
UnsupportedRatioTexts ==
    {<<"robot", "--ratio", "2:3">>, <<"--ratio", "2:3", "robot">>}

\* the step schedules one job, with the default ratio
SchedulesDefaultRatio ==
    \E n \in BagToSet(jobs') :
        /\ jobs' = jobs (+) SetToBag({n})
        /\ n.pc = "sched"
        /\ n.ratio = DefaultRatio

\* C19: on every trigger path a ratio outside the supported set falls back
\* to 16:9 and the job goes on: the command or the mention is acknowledged
\* and its job is scheduled with the default ratio, and no error is the
\* answer.
C19_UnsupportedRatioFallsBack ==
    [][/\ \A route \in Routes, text \in UnsupportedRatioTexts :
             SlashCommand(route, CHOOSE c \in RouteCommands(route) : TRUE,
                          text, TRUE, TRUE)
             => (resp' = [code |-> 200, body |-> ""] /\ SchedulesDefaultRatio)
       /\ \A ts \in 1..MaxMentionEvents, text \in UnsupportedRatioTexts :
             (/\ variant = "part_001"
              /\ ~KeyRecorded(processedEvents, DedupId("C1", "U1", ts))
              /\ MentionText(ts, text, TRUE))
             => (/\ resp' = Ok200
                 /\ delivery'.outcome = "scheduled"
                 /\ SchedulesDefaultRatio)
      ]_vars

\* C20: the deferred part of a job runs detached from the request: in the
\* step in which a handler schedules a job it also gives its empty or ok
\* response, and at that point the job has attempted no admission and made
\* no provider call; the counter and the other jobs are untouched.
C20_HandlerReturnsFirst ==
    [][BagCardinality(jobs') > BagCardinality(jobs) =>
          /\ resp' \in {[code |-> 200, body |-> ""], Ok200}
          /\ activeRequests' = activeRequests
          /\ \E n \in BagToSet(jobs') :
                /\ jobs' = jobs (+) SetToBag({n})
                /\ n.pc = "sched"
                /\ ~n.admitted /\ ~n.rejected
                /\ n.fnCalls = 0 /\ n.retryCalls = 0 /\ n.opCalls = 0
                /\ n.released = 0
      ]_vars

\* a command has its empty response while its job still waits for its timer
C20_Witness ==
    /\ resp = [code |-> 200, body |-> ""]
    /\ \E j \in JobSet :
          /\ j.kind = "ian"
          /\ j.pc = "sched"
          /\ j.opCalls = 0
          /\ ~j.admitted

--------------------------------------------------------------------------
(* Claims about the order of release and delivery and about the dispatcher *)

\* C21: for every admitted job the slot is released only after the job's
\* outcome was delivered: a job whose slot is released has uploaded its
\* result (success) or has sent its error message (failure).
C21_ReleasedAfterDelivery ==
    \A j \in JobSet :
        (j.admitted /\ j.released > 0) => (j.uploaded \/ j.errSent)

\* the states of a job after retryWithBackoff returned
AfterReturn(j) ==
    \/ j.pc \in {"save", "upload"}
    \/ j.uploaded
    \/ j.err \in {"SaveFailed", "UploadFailed"}

\* C22: nothing is retried or queued at the dispatcher. A job calls
\* requestFn and retryWithBackoff at most once each; every provider call it
\* makes is an attempt of that one retryWithBackoff; once retryWithBackoff
\* has returned (also when the save or the upload then fails) the calls
\* made stay those made up to the successful attempt; and a job rejected at
\* admission goes to its error post and is never run.
C22_NoDispatcherRetry ==
    \A j \in JobSet :
        /\ j.fnCalls <= 1
        /\ j.retryCalls <= 1
        /\ j.opCalls = j.attempt
        /\ j.opCalls > 0 => j.retryCalls = 1
        /\ AfterReturn(j) => (j.result >= 1 /\ j.opCalls = j.result)
        /\ j.rejected => /\ j.pc \in {"postErr", "done"}
                         /\ ~j.admitted
                         /\ j.fnCalls = 0
                         /\ j.retryCalls = 0
                         /\ j.opCalls = 0

\* a job whose save failed after a timeout and a success is over, its error
\* sent, with the two provider calls of its one retryWithBackoff
C22_Witness ==
    \E j \in JobSet :
        /\ j.pc = "done"
        /\ j.err = "SaveFailed"
        /\ j.errSent
        /\ j.retryCalls = 1
        /\ j.opCalls = 2
        /\ j.result = 2

\* C23: a /tmai command whose channel_id is not TARGET_CHANNEL starts no
\* job: the request posts no acknowledgment and schedules no callback.
C23_ChannelRestricted ==
    [][\A channel_id \in Channels \ {TARGET_CHANNEL},
          command \in RouteCommands("/tmai-gen"),
          lookupOk \in BOOLEAN, ackOk \in BOOLEAN :
            SlashCommandIn(channel_id, "/tmai-gen", command, <<"robot">>,
                           lookupOk, ackOk)
            => (jobs' = jobs /\ ack' = ack)]_vars

\* requests whose command is not one its endpoint takes
UnknownCommandRequests == {<<"/tmai-gen", "/ian">>, <<"/ian-gen", "/tmai">>}

\* C24: a slash-command request whose command its endpoint does not take is
\* answered 400 "Unknown command" and posts no acknowledgment, schedules no
\* job and leaves activeRequests as it was.
C24_UnknownCommandRejected ==
    [][\A r \in UnknownCommandRequests, channel_id \in Channels,
          lookupOk \in BOOLEAN, ackOk \in BOOLEAN :
            SlashCommandIn(channel_id, r[1], r[2], <<"robot">>, lookupOk, ackOk)
            => /\ resp' = [code |-> 400, body |-> "Unknown command"]
               /\ jobs' = jobs
               /\ ack' = ack
               /\ activeRequests' = activeRequests]_vars

\* an unknown command has just been answered, after an earlier command was
\* acknowledged and its job is over
C24_Witness ==
    /\ resp = [code |-> 400, body |-> "Unknown command"]
    /\ ack.text = "working"
    /\ jobs = EmptyBag

\* C25: a slash-command request with a command its endpoint takes and a
\* prompt is answered with HTTP 200 whether or not the user lookup and the
\* acknowledgment post succeed, and nothing the job does later (rejection,
\* failure of the generation, of the save or of the upload) changes the
\* response.
C25_RecognizedCommandGets200 ==
    [][/\ \A channel_id \in Channels, lookupOk \in BOOLEAN, ackOk \in BOOLEAN,
            r \in {<<"/tmai-gen", "/tmai">>, <<"/tmai-gen", "/test-tmai">>,
                   <<"/ian-gen", "/ian">>, <<"/ian-gen", "/test-ian">>},
            text \in {<<"robot">>, <<"robot", "--ratio", "1:1">>} :
              SlashCommandIn(channel_id, r[1], r[2], text, lookupOk, ackOk)
              => resp'.code = 200
       /\ (jobs # EmptyBag) => resp' = resp]_vars

\* the acknowledgment post of a recognized command has failed and the
\* request was answered 200 with the handler's error text
C25_Witness ==
    /\ resp.code = 200
    /\ resp.body = "[X] An unexpected error occurred"
    /\ jobs = EmptyBag

\* a request's step has posted the acknowledgment to the placeholder name
\* and scheduled one job of the kind
StartedForPlaceholder(kind) ==
    /\ ack'.text = "working"
    /\ ack'.user = "there"
    /\ BagCardinality(jobs') = BagCardinality(jobs) + 1
    /\ \E j \in BagToSet(jobs') : j.kind = kind /\ j.pc = "sched"

\* C26: when users.info fails, the handler still posts the acknowledgment,
\* addressed to the placeholder name "there", and schedules the job; this
\* for a slash command with a prompt whose acknowledgment post succeeds,
\* and for the first delivery of a valid mention whose post succeeds.
C26_LookupFailureFallsBack ==
    [][/\ \A channel_id \in Channels,
            r \in {<<"/tmai-gen", "/tmai">>, <<"/ian-gen", "/ian">>},
            text \in {<<"robot">>, <<"robot", "--ratio", "1:1">>} :
              SlashCommandIn(channel_id, r[1], r[2], text, FALSE, TRUE)
              => /\ StartedForPlaceholder(RouteKind(r[1]))
                 /\ resp' = [code |-> 200, body |-> ""]
       /\ \A ts \in 1..1, ratio \in {DefaultRatio, "1:1"} :
              (/\ ~KeyRecorded(processedEvents, DedupId("C1", "U1", ts))
               /\ SlackImagePart001("event_callback", "app_mention", ts,
                                    "valid", ratio, TRUE, FALSE))
              => /\ StartedForPlaceholder("mention")
                 /\ resp' = Ok200]_vars

\* a job whose acknowledgment went to the placeholder name has uploaded
\* its result
C26_Witness ==
    /\ ack.text = "working"
    /\ ack.user = "there"
    /\ \E j \in JobSet : j.pc = "done" /\ j.uploaded

--------------------------------------------------------------------------
(* Claims about the backoff, the termination and the provider calls *)

RetryableErrors == {"Timeout", "Overloaded", "Status503"}

\* C27: retryWithBackoff sleeps only after a retryable failure of an
\* attempt a < maxRetries, and then for a delay d with
\* baseDelay * 2^(a-1) <= d < baseDelay * 2^(a-1) + 1000; it has slept
\* once per attempt before the current one and never after a success, a
\* fatal error or the failure of the last attempt.
C27_BackoffDelay ==
    \A j \in JobSet :
        IF j.pc = "sleep"
        THEN /\ j.err \in RetryableErrors
             /\ j.attempt >= 1
             /\ j.attempt < j.maxRetries
             /\ BaseDelay * 2 ^ (j.attempt - 1) <= j.delay
             /\ j.delay < BaseDelay * 2 ^ (j.attempt - 1) + 1000
             /\ j.sleeps = j.attempt
        ELSE /\ j.delay = 0
             /\ j.sleeps = IF j.attempt >= 1 THEN j.attempt - 1 ELSE 0

\* a call sleeps after its third attempt failed, for the longest delay the
\* jitter allows
C27_Witness ==
    \E j \in JobSet :
        /\ j.pc = "sleep"
        /\ j.attempt = 3
        /\ j.delay = 4999

IsRunning(j) == j.pc \in {"gen", "sleep"}

IsOver(j) == j.pc \in {"returned", "raised"}

\* C28: a call of retryWithBackoff with maxRetries >= 1 that is running
\* is over in the end, the timers firing, whether its operation settles or
\* not; and a call all of whose maxRetries attempts were ended by their
\* timeout has raised the timeout error, after maxRetries attempts.
C28_AlwaysTerminates ==
    /\ (\E j \in JobSet : IsRunning(j) /\ j.maxRetries >= 1)
          ~> (\E j \in JobSet : IsOver(j) /\ j.maxRetries >= 1)
    /\ [](\A j \in JobSet :
             (IsOver(j) /\ j.maxRetries >= 1 /\ j.timeouts = j.maxRetries)
             => /\ j.pc = "raised"
                /\ j.err = "Timeout"
                /\ j.opCalls = j.maxRetries)
    /\ [](\A j \in JobSet : j.timeouts = j.maxRetries => ~IsRunning(j))

\* a call with maxRetries = 3 has raised the timeout error after three
\* attempts, each ended by its timeout
C28_Witness ==
    \E j \in JobSet :
        /\ j.pc = "raised"
        /\ j.maxRetries = 3
        /\ j.timeouts = 3
        /\ j.err = "Timeout"

RECURSIVE SumOver(_, _)
\* the sum of f[j] over the jobs of S, copies counted
SumOver(S, f) ==
    IF S = {} THEN 0
    ELSE LET j == CHOOSE x \in S : TRUE
         IN jobs[j] * f[j] + SumOver(S \ {j}, f)

\* the provider calls of job j started and not settled: the one its current
\* attempt awaits, and those its timed-out attempts abandoned
CallsInFlight(j) == j.abandoned + (IF j.pc = "gen" THEN 1 ELSE 0)

ProviderCallsInFlight == SumOver(JobSet, [j \in JobSet |-> CallsInFlight(j)])

\* C29: at any time at most MAX_CONCURRENT provider calls are started and
\* not settled, over all jobs, calls abandoned by a timeout included.
C29_ProviderCallsBounded == ProviderCallsInFlight <= MAX_CONCURRENT

--------------------------------------------------------------------------
(* A claim about the order of eviction, checked under SpecDedup *)

\* the first key was evicted and then, delivered once more, inserted again
\* (the deliveries repeat no other evicted key)
FirstKeyInsertedAgain ==
    /\ issued > DedupLimit
    /\ KeyRecorded(processedEvents, DedupId("C1", "U1", 1))

\* the keys of the set are the ones inserted last, oldest first
HoldsLastInserted ==
    /\ Len(processedEvents) = Min(issued, DedupLimit)
    /\ \A i \in 1..Len(processedEvents) :
           processedEvents[i] =
               DedupId("C1", "U1", issued - Len(processedEvents) + i)

\* C30: eviction goes by insertion order, not by access order. Whatever
\* recorded keys were delivered again in between, the set holds the keys
\* inserted last in the order of their insertion (as long as every key was
\* inserted once); the delivery of a duplicate leaves
\* that order as it was; and when the oldest key of a full set was
\* delivered again and a new key comes next, the oldest key is the one
\* evicted, before every key inserted after it.
C30_EvictionByInsertionOrder ==
    /\ []((variant = "part_001" /\ ~FirstKeyInsertedAgain) => HoldsLastInserted)
    /\ [][(MentionHandled /\ KeyRecorded(processedEvents, delivery'.key))
             => processedEvents' = processedEvents]_vars
    /\ [][(/\ MentionHandled
           /\ ~KeyRecorded(processedEvents, delivery'.key)
           /\ Len(processedEvents) = DedupLimit
           /\ delivery.outcome = "duplicate"
           /\ delivery.key = Head(processedEvents))
             => /\ ~KeyRecorded(processedEvents', delivery.key)
                /\ processedEvents' =
                       Append(Tail(processedEvents), delivery'.key)]_vars

\* the oldest key of a full set is delivered again; the key after it was
\* the oldest before and has been evicted by then
C30_Witness ==
    /\ variant = "part_001"
    /\ Len(processedEvents) = DedupLimit
    /\ issued = DedupLimit + 1
    /\ delivery.outcome = "duplicate"
    /\ delivery.key = Head(processedEvents)
    /\ delivery.key = DedupId("C1", "U1", 2)

--------------------------------------------------------------------------
(* Claims about the mention path of the webhook *)

\* the prompts of a valid mention: a description, with or without a
\* supported ratio (the event has user, channel, text and an image)
ValidMentionPrompts == {<<"robot">>, <<"robot", "--ratio", "1:1">>}

\* the step posts the acknowledgment in the thread of the user's message
\* and schedules one mention job
AcknowledgedAndScheduled ==
    /\ ack'.text = "working"
    /\ ack'.thread_ts = EventTs
    /\ delivery'.posts = 1
    /\ delivery'.scheduled = 1
    /\ \E n \in BagToSet(jobs') :
          /\ jobs' = jobs (+) SetToBag({n})
          /\ n.kind = "mention"
          /\ n.pc = "sched"

\* C31: the first delivery of a valid app_mention (its key not in the
\* dedup set, the Slack calls succeeding) passes the deduplicator, which
\* records its key, posts exactly one acknowledgment, schedules exactly one
\* job, and is answered {ok: true}, not an error.
C31_FirstMentionScheduled ==
    [][\A ts \in 1..1, prompt \in ValidMentionPrompts, lookupOk \in BOOLEAN :
          (/\ ~KeyRecorded(processedEvents, DedupId("C1", "U1", ts))
           /\ \/ SlackImageServerJs("event_callback", "app_mention", ts)
              \/ SlackImagePart001("event_callback", "app_mention", ts,
                                   MentionShape(prompt), MentionRatio(prompt),
                                   TRUE, lookupOk))
          => /\ resp' = Ok200
             /\ delivery'.outcome = "scheduled"
             /\ KeyRecorded(processedEvents', DedupId("C1", "U1", ts))
             /\ AcknowledgedAndScheduled]_vars

\* the last request was a mention answered 500
MentionFailed == delivery.type = "app_mention" /\ delivery.outcome = "error"

\* C32 as stated: the handler never leaves a key recorded for a delivery
\* whose handling failed with a 500 response, so the delivery of the same
\* key that comes next is not dropped as a duplicate.
C32_FailedKeyNotRecorded ==
    /\ [](MentionFailed => ~KeyRecorded(processedEvents, delivery.key))
    /\ [][(MentionHandled /\ MentionFailed /\ delivery'.key = delivery.key)
             => delivery'.outcome # "duplicate"]_vars

\* a step leaves the set as it was or appends the key of the delivery, the
\* oldest key leaving when the set was full: no other key leaves the set
OnlyEvictionRemoves ==
    \/ processedEvents' = processedEvents
    \/ processedEvents' = Append(processedEvents, delivery'.key)
    \/ /\ Len(processedEvents) = DedupLimit
       /\ processedEvents' = Append(Tail(processedEvents), delivery'.key)

\* C32 amended: a mention is dropped as a duplicate exactly when its key is
\* in the set on arrival; the key is recorded when the delivery passes the
\* duplicate check (part_001), before the rest of the handling, and a 500
\* response leaves it recorded: the key of a failed delivery is in the set,
\* the delivery of the same key that comes next is dropped as a duplicate,
\* and keys leave the set by eviction only.
C32_KeyRecordedBeforeHandling ==
    /\ [][MentionHandled =>
             (delivery'.outcome = "duplicate"
                 <=> KeyRecorded(processedEvents, delivery'.key))]_vars
    /\ []((variant = "part_001" /\ delivery.type = "app_mention")
             => KeyRecorded(processedEvents, delivery.key))
    /\ [][(/\ MentionHandled
           /\ MentionFailed
           /\ variant = "part_001"
           /\ delivery'.key = delivery.key)
             => (delivery'.outcome = "duplicate"
                 /\ processedEvents' = processedEvents)]_vars
    /\ [][OnlyEvictionRemoves]_vars

\* the second of two keys was answered 500 and is recorded, after the first
C32_Witness ==
    /\ variant = "part_001"
    /\ MentionFailed
    /\ issued = 2
    /\ processedEvents = <<DedupId("C1", "U1", 1), DedupId("C1", "U1", 2)>>
    /\ delivery.key = DedupId("C1", "U1", 2)

--------------------------------------------------------------------------
(* Claims about the slot a job holds, checked under Spec and SpecSlots *)

\* job j was admitted and its requestFn has not finished: it is loading,
\* calling the provider, sleeping between attempts, saving or uploading
IsExecuting(j) ==
    j.admitted /\ j.pc \in {"load", "gen", "sleep", "save", "upload"}

NumExecuting == Count({j \in JobSet : IsExecuting(j)})

\* C33: in every reachable state activeRequests is the number of jobs that
\* were admitted and whose requestFn has not finished (resolved or thrown);
\* so whenever no job is executing, activeRequests is 0.
C33_CounterCountsExecuting ==
    /\ activeRequests = NumExecuting
    /\ (\A j \in JobSet : ~IsExecuting(j)) => activeRequests = 0

\* two jobs are executing while a third, whose provider call failed, has
\* left requestFn and still awaits its error post
C33_Witness ==
    /\ activeRequests = 2
    /\ NumExecuting = 2
    /\ \E j \in JobSet :
          /\ j.admitted
          /\ j.pc = "postErr"
          /\ j.err = "BadRequest"

JobKinds == {"tmai", "ian", "mention"}

\* job j has given its slot back and the counter is down again
HasReleased(j) == j.admitted /\ j.released = 1 /\ ~IsExecuting(j)

\* C34: every admitted job releases its slot in the end, whatever the
\* provider does (succeed, fail or never answer), provided the loading, the
\* save and the upload settle and the timers fire: a job of any kind that
\* is executing leads to that job having decremented activeRequests, and a
\* job all of whose attempts were ended by their timeout has released too.
C34_AdmittedJobReleases ==
    /\ \A kind \in JobKinds :
          (\E j \in JobSet : j.kind = kind /\ IsExecuting(j))
             ~> (/\ activeRequests = 0
                 /\ \E j \in JobSet : j.kind = kind /\ HasReleased(j))
    /\ [](\A j \in JobSet :
             j.timeouts = j.maxRetries => (HasReleased(j) /\ j.err = "Timeout"))

\* the provider never answered a /tmai job: its five attempts were ended by
\* their timeouts and the job has given its slot back
C34_Witness ==
    /\ activeRequests = 0
    /\ \E j \in JobSet :
          /\ j.kind = "tmai"
          /\ j.timeouts = DefaultMaxRetries
          /\ j.opCalls = DefaultMaxRetries
          /\ j.released = 1
          /\ j.err = "Timeout"

--------------------------------------------------------------------------
(* A claim about the outcome a job delivers, checked under SpecHandlers *)

\* the outcomes of job j that reached the thread of its acknowledgment
UploadDelivered(j) == j.uploaded /\ j.upload = AckTs /\ j.threadTs = AckTs

ErrorDelivered(j) ==
    j.errSent /\ j.errPost.thread_ts = AckTs /\ j.threadTs = AckTs

\* C35: an acknowledged job whose Notifier calls succeed delivers exactly
\* one outcome to the thread of its acknowledgment: the upload of the image
\* or one error message. No job delivers both; a job that is over has
\* delivered one of the two unless its error post was rejected; a job that
\* has delivered its upload has no error, and one that has delivered an
\* error has uploaded nothing, also when the upload is what failed.
C35_ExactlyOneOutcome ==
    \A j \in JobSet :
        /\ ~(j.uploaded /\ j.errSent)
        /\ j.uploaded => (UploadDelivered(j) /\ j.err = "none" /\ j.pc = "done")
        /\ j.errSent => (ErrorDelivered(j) /\ j.err # "none" /\ j.pc = "done")
        /\ (j.pc = "done" /\ ~j.escaped) =>
              (UploadDelivered(j) \/ ErrorDelivered(j))
        /\ j.escaped => (j.err # "none" /\ ~j.uploaded /\ ~j.errSent)

\* the upload of an /ian job was rejected and the job has delivered its one
\* outcome, the error message
C35_Witness ==
    \E j \in JobSet :
        /\ j.kind = "ian"
        /\ j.pc = "done"
        /\ j.err = "UploadFailed"
        /\ j.upload = AckTs
        /\ ~j.uploaded
        /\ ErrorDelivered(j)

--------------------------------------------------------------------------
(* A claim about what the slot of a job covers, checked under SpecCeiling *)

\* job j is inside requestFn and awaits something other than a provider
\* call: the loading, a backoff sleep, the save or the upload
IsIdleInside(j) == j.pc \in {"load", "sleep", "save", "upload"}

IsCalling(j) == j.pc = "gen"

\* C36: a job keeps its slot for the whole of requestFn, the backoff
\* sleeps, the save and the upload included: a job at any point of
\* requestFn is admitted and has not released, the jobs that await
\* something other than a provider call are counted in activeRequests, and
\* the counter exceeds the number of jobs in a provider call by their
\* number, so that it can be at the ceiling, and a new job rejected, while
\* fewer than MAX_CONCURRENT provider calls are in flight.
C36_SlotHeldThroughout ==
    /\ \A j \in JobSet :
          (IsIdleInside(j) \/ IsCalling(j)) => (j.admitted /\ j.released = 0)
    /\ activeRequests - Count({j \in JobSet : IsCalling(j)})
          = Count({j \in JobSet : IsIdleInside(j)})
    /\ \A j \in JobSet :
          (j.rejected /\ j.pc = "postErr") => ~j.admitted /\ j.released = 0

\* a job sleeps between two attempts while the counter is at the ceiling,
\* no provider call is awaited, and a new job has just been rejected
C36_Witness ==
    /\ activeRequests = MAX_CONCURRENT
    /\ Count({j \in JobSet : IsCalling(j)}) = 0
    /\ \E j \in JobSet : j.pc = "sleep" /\ j.admitted /\ j.released = 0
    /\ \E j \in JobSet : j.rejected /\ j.pc = "postErr"

--------------------------------------------------------------------------
(* A claim about the webhook's other traffic, checked under SpecMention *)

\* the step handles a request that is not an app_mention
OtherTrafficHandled ==
    delivery'.seq # delivery.seq /\ delivery'.type # "app_mention"

\* C37: the webhook leaves the shared state as it was for traffic that is
\* not a mention: a url_verification request is answered with the echoed
\* challenge, an event_callback of another event type with {ok: true}, and
\* neither changes processedEvents or activeRequests, posts a message or
\* schedules a job, in either revision and whatever jobs are in flight.
C37_OtherTrafficChangesNothing ==
    [][OtherTrafficHandled =>
          /\ processedEvents' = processedEvents
          /\ activeRequests' = activeRequests
          /\ jobs' = jobs
          /\ ack' = ack
          /\ delivery'.posts = 0
          /\ delivery'.scheduled = 0
          /\ delivery'.key = <<>>
          /\ IF delivery'.type = "url_verification"
             THEN resp' = [code |-> 200, body |-> "challenge"]
             ELSE resp' = Ok200
      ]_vars

\* a url_verification request has been answered while a mention job holds
\* a slot and the key of its event is recorded
C37_Witness ==
    /\ delivery.type = "url_verification"
    /\ resp = [code |-> 200, body |-> "challenge"]
    /\ activeRequests = 1
    /\ processedEvents = <<DedupId("C1", "U1", 1)>>
    /\ \E j \in JobSet : j.kind = "mention" /\ j.pc = "gen"

--------------------------------------------------------------------------
(* A claim about the aspect ratio of a provider call, checked under SpecHandlers *)

\* texts with a prompt that specify no ratio: no flag, a ratio without the
\* flag, the flag without a value
NoRatioTexts == {<<"robot">>, <<"robot", "1:1">>, <<"robot", "--ratio">>}

\* the step schedules one job, whose calls will carry the ratio
SchedulesWithRatio(ratio) ==
    \E n \in BagToSet(jobs') :
        /\ jobs' = jobs (+) SetToBag({n})
        /\ n.pc = "sched"
        /\ n.ratio = ratio

\* C38: every provider call of every job carries an aspect ratio of the set
\* {1:1, 3:4, 4:3, 9:16, 16:9}: the ratio of a job, at every point of its
\* run, is in the set whatever the text of the trigger was; and a trigger
\* that specifies no ratio schedules its job with 16:9.
C38_RatioEnumerated ==
    /\ [](\A j \in JobSet : j.ratio \in SupportedRatios)
    /\ [][\A route \in Routes, text \in NoRatioTexts :
             SlashCommand(route, CHOOSE c \in RouteCommands(route) : TRUE,
                          text, TRUE, TRUE)
             => SchedulesWithRatio(DefaultRatio)]_vars
    /\ [][\A ts \in 1..1, text \in NoRatioTexts :
             (/\ variant = "part_001"
              /\ ~KeyRecorded(processedEvents, DedupId("C1", "U1", ts))
              /\ MentionText(ts, text, TRUE))
             => SchedulesWithRatio(DefaultRatio)]_vars

\* a provider call of a mention job is in flight with the ratio 1:1 that
\* the mention asked for
C38_Witness ==
    \E j \in JobSet :
        /\ j.kind = "mention"
        /\ j.pc = "gen"
        /\ j.opCalls = 1
        /\ j.ratio = "1:1"

--------------------------------------------------------------------------
(* A claim about the races of retryWithBackoff, checked under SpecRace *)

\* the step is the late settling of an operation that lost its race, or of
\* a timer that lost its race, of call j, which becomes k
SettlesLate(j, k) ==
    /\ jobs' = Replace(j, k)
    /\ (k.abandoned < j.abandoned \/ k.timers < j.timers)

\* k is j as far as retryWithBackoff can tell
SameCall(j, k) ==
    /\ k.pc = j.pc
    /\ k.attempt = j.attempt
    /\ k.opCalls = j.opCalls
    /\ k.result = j.result
    /\ k.err = j.err
    /\ k.sleeps = j.sleeps
    /\ k.timeouts = j.timeouts

\* C39: what retryWithBackoff returns is the result of the attempt that won
\* its own race, the one running when it returned. An operation call of an
\* earlier, timed-out attempt that resolves or rejects late, and the timer
\* of an earlier attempt that fires late, change nothing of the call: they
\* neither return nor raise, and neither end nor fail the attempt running.
C39_OwnRaceOnly ==
    /\ [](\A j \in JobSet :
             /\ j.pc = "returned" =>
                   (j.result = j.attempt /\ j.result >= 1 /\ j.err = "none")
             /\ j.abandoned <= j.timeouts
             /\ j.timers + j.timeouts <= j.opCalls)
    /\ [][\A j \in JobSet, k \in BagToSet(jobs') :
             SettlesLate(j, k) => SameCall(j, k)]_vars

\* the third attempt of a call is running; the operation of the first
\* attempt, ended by its timeout, has settled since, and the timer of the
\* second, whose operation failed first, has fired since
C39_Witness ==
    \E j \in JobSet :
        /\ j.pc = "gen"
        /\ j.attempt = 3
        /\ j.opCalls = 3
        /\ j.timeouts = 1
        /\ j.abandoned = 0
        /\ j.timers = 0

==========================================================================
